---- MODULE Spec2Model ----
(***************************************************************************)
(* TokenLogin (server side, connection-scoped version, part_000 lines      *)
(* 64-558): the session collection, the clock, and the calls in flight.    *)
(* Every call runs in its own fiber; a fiber yields at each collection     *)
(* call, so the steps of different calls interleave.                       *)
(***************************************************************************)
EXTENDS Integers, Sequences, FiniteSets, TLC

\* ---------------------------------------------------------------- bounds
MaxSessions == 2

\* Time is counted in ticks, and every Date is held relative to the current
\* instant: new Date() is Now, a stored date d stands for the instant d
\* ticks from now, and a tick of the clock lowers every stored date by one.
\* A date that lies further back than any comparison of the code can tell
\* stays where it is (Floor). config.expiry and config.retain are scaled
\* to ticks, expiry < retain.
expiry == 1
retain == 2
Now == 1 - 1

Users == {"u1"}
Conns == {"c1"}
Fibers == {1, 2}
NoUser == "nobody"

\* ---------------------------------------------------------------- values
\* JavaScript values that reach the collection selectors: strings, user
\* documents, undefined.
None == 0 - 9
Floor == 0 - (retain + 1)
Undefined == [tag |-> "undefined", v |-> ""]
StringVal(s) == [tag |-> "string", v |-> s]
UserDoc(u) == [tag |-> "user", v |-> u]
\* x._id : the _id of a user document; undefined on a string
Prop_id(x) == IF x.tag = "user" THEN StringVal(x.v) ELSE Undefined

\* Random.id(6): one of the identifiers of the generator's alphabet.
GenTokens == {<<1, 1>>, <<1, 2>>}
\* A caller may submit any string, e.g. a proper prefix of a token.
SubmittedTokens == GenTokens \cup {<<1>>}

\* Accounts that findUser finds but that cannot be sent a token: one with no
\* profile.TwoFactorLogin, one whose factor is not registered.
NoProfileUser == "u3"
BadFactorUser == "u4"

\* get(user, 'profile.TwoFactorLogin'): the pair of the users created at
\* startup, undefined when the profile has none
Profile(u) ==
  IF u = NoProfileUser THEN Undefined
  ELSE IF u = BadFactorUser THEN [contact |-> "smscontact", factor |-> "sms"]
  ELSE [contact |-> "telegramcontact", factor |-> IF u = "u1" THEN "telegram" ELSE "email"]

NoDoc == [_id |-> 0, token |-> <<>>, factor |-> "", expireAt |-> None,
          verifyAt |-> None, userId |-> Undefined, connectionId |-> Undefined]

VARIABLES collection, nextId, fibers, returned, config, limiter, login

vars == <<collection, nextId, fibers, returned, config, limiter, login>>

\* what lies outside the session store: the shared configuration, the
\* counters of the DDP rate limiter and the login attempts validated
env == <<config, limiter, login>>

\* ------------------------------------------------------- pure operations
\* collection.findOne({connectionId, userId}): the possible results, one of
\* the matching documents (no sort is given), or nothing.
findOne(coll, connectionId, userId) ==
  LET m == {d \in coll : d.connectionId = connectionId /\ d.userId = userId}
  IN IF m = {} THEN {NoDoc} ELSE m

\* a check that lets a session live one tick past its expireAt
expiredLate(t, session) == session.expireAt # None /\ t - session.expireAt > 1

\* (new Date() - new Date(session.expireAt)) > 0 ; NaN > 0 is false when
\* expireAt is unset
expired(t, session) == session.expireAt # None /\ t - session.expireAt > 0

\* a comparison that accepts a prefix of the stored token
tokenPrefixDiffers(stored, token) == SubSeq(stored, 1, Len(token)) # token

\* session.token !== token
tokenDiffers(stored, token) == stored # token

\* the checks of assertOpenSession on the document found
assertOpenChecks(session, t) ==
  IF session = NoDoc THEN FALSE
  ELSE IF session.verifyAt # None THEN FALSE
  ELSE IF expired(t, session) THEN FALSE
  ELSE TRUE

\* the checks of verifyToken on the document found: the console message of
\* the failing check, or "ok"
verifyChecks(session, t, token) ==
  IF session = NoDoc THEN "no session"
  ELSE IF session.verifyAt # None THEN "already verified"
  ELSE IF expired(t, session) THEN "expired"
  ELSE IF tokenDiffers(session.token, token) THEN "wrong token"
  ELSE "ok"

\* an update that also unsets the token
updateUnsetToken(coll, id, t) ==
  {IF d._id = id THEN [d EXCEPT !.verifyAt = t, !.expireAt = None, !.token = <<>>] ELSE d :
     d \in coll}

\* collection.update(session._id, {$set: {verifyAt: new Date()}, $unset: {expireAt: true}})
update(coll, id, t) ==
  {IF d._id = id THEN [d EXCEPT !.verifyAt = t, !.expireAt = None] ELSE d : d \in coll}

\* a selector that leaves the sessions that have not expired
removeSelectedExpired(coll, connectionId) ==
  {d \in coll : d.connectionId = connectionId /\ d.verifyAt = None /\ expired(Now, d)}

\* the documents collection.remove({connectionId, verifyAt: {$exists: false}}) removes
removeSelected(coll, connectionId) ==
  {d \in coll : d.connectionId = connectionId /\ d.verifyAt = None}

\* collection.insert({token, factor, expireAt, userId: user._id, connectionId})
newSession(id, connectionId, user, token, factor, t) ==
  [_id |-> id, token |-> token, factor |-> factor, expireAt |-> t + expiry,
   verifyAt |-> None, userId |-> Prop_id(user), connectionId |-> connectionId]

\* ------------------------------------------------------------ the fibers
\* A call in flight: op/pc, the call and its next step; user, connectionId,
\* token: the parameters of the TokenLogin method running; session: the
\* document found; removed: the documents the call's invalidateSession
\* removed. For a sendToken in progress: send, the state of the channel's
\* send ("pending" until it calls back); timer, whether the timeout set by
\* Meteor.setTimeout is still to fire; timeout, its delay; calls, how often
\* the callback passed to sendToken has been invoked.
IdleFiber ==
  [op |-> "", pc |-> "idle", user |-> Undefined, connectionId |-> Undefined,
   token |-> <<>>, session |-> NoDoc, removed |-> {},
   send |-> "", timer |-> FALSE, timeout |-> 0, calls |-> 0]

Frame(op, pc, user, connectionId) ==
  [IdleFiber EXCEPT !.op = op, !.pc = pc, !.user = user, !.connectionId = connectionId]

\* What the caller of a call sees when the step just taken made the call
\* return: ret (the value, or "throw"), err (the error thrown), n (the count
\* returned), log (the console message), and the call it was: op, and for
\* verifyToken the token submitted and the document its lookup found, for
\* invalidateSession the connection id passed, the documents the call's
\* invalidateSession removed, for saveMeteorServiceToken and verifyContact the
\* user passed, for ret = "value" the value returned, the tokens the
\* call wrote to the console, and for a call made by the client class the
\* sessionId and token the client was given.
NoReturn == [op |-> "", ret |-> "", n |-> 0, err |-> "", log |-> "",
             token |-> <<>>, session |-> NoDoc, connectionId |-> Undefined,
             removed |-> {}, user |-> Undefined, value |-> Undefined,
             console |-> {}, args |-> <<>>]

Returned(f, op, ret, log) ==
  [NoReturn EXCEPT !.op = op, !.ret = ret, !.log = log]

Thrown(f, op, err, log) ==
  [NoReturn EXCEPT !.op = op, !.ret = "throw", !.err = err, !.log = log]

\* A new call runs in the first fiber that is idle (the fibers are
\* interchangeable).
Free(f) ==
  /\ fibers[f].pc = "idle"
  /\ \A g \in Fibers : g < f => fibers[g].pc # "idle"

\* ------------------------------------------------------- configuration
\* A factor as check(factor, {send: Function, settings: Match.Maybe(Object)})
\* sees it: the types of its send and of its settings.
NoFactor == [send |-> "none", settings |-> "none"]
SendOnly == [send |-> "function", settings |-> "undefined"]
WithSettings == [send |-> "function", settings |-> "object"]
NoSend == [send |-> "undefined", settings |-> "undefined"]
BadSettings == [send |-> "function", settings |-> "string"]
FactorShapes == {SendOnly, WithSettings, NoSend, BadSettings}

\* the names of factors: those registered at construction and one more
FactorKeys == {"default", "telegram", "email", "sms"}

\* the keys of the pattern of check(config, {...}) that take an integer, and
\* the key profile, which takes a string
IntegerKeys == {"expiry", "retain", "requestInterval", "requestCount"}
SettingKeys == IntegerKeys \cup {"profile"}

\* a value of a setting: its type, and its number when it is an integer
Absent == [type |-> "undefined", n |-> 0]
IntVal(n) == [type |-> "integer", n |-> n]
StrVal == [type |-> "string", n |-> 0]
SettingValues == {Absent, IntVal(0 - 1), IntVal(0), IntVal(3), StrVal}

\* defaultConfig.requestInterval and defaultConfig.requestCount, the interval
\* in units of ten seconds
requestInterval == 1
requestCount == 1

\* defaultConfig after new TokenLogin('LoginSession', {factors: {telegram,
\* email}, generate, profile})
defaultConfig ==
  [factors |-> [k \in FactorKeys |->
                  IF k = "default" THEN WithSettings
                  ELSE IF k = "sms" THEN NoFactor ELSE SendOnly],
   settings |-> [k \in SettingKeys |->
                  IF k = "expiry" THEN IntVal(expiry)
                  ELSE IF k = "retain" THEN IntVal(retain)
                  ELSE IF k = "requestInterval" THEN IntVal(requestInterval)
                  ELSE IF k = "requestCount" THEN IntVal(requestCount)
                  ELSE StrVal]]

\* check(factor, {send: Function, settings: Match.Maybe(Object)}) passes
checkFactor(factor) ==
  factor.send = "function" /\ factor.settings \in {"undefined", "object"}

\* the value passes the pattern of its key: Match.Maybe(Match.Integer) or
\* Match.Maybe(String)
checkSetting(key, value) ==
  \/ value.type = "undefined"
  \/ key \in IntegerKeys /\ value.type = "integer"
  \/ key = "profile" /\ value.type = "string"

\* _.each(config.factors, (factor, key) => this.addFactor(factor, key)) over
\* the factors in the order of their keys: the factors registered when the
\* loop ends or addFactor throws, and whether it threw
RECURSIVE addFactors(_, _)
addFactors(registered, overrides) ==
  IF overrides = <<>> THEN [factors |-> registered, threw |-> FALSE]
  ELSE IF ~checkFactor(Head(overrides).factor)
       THEN [factors |-> registered, threw |-> TRUE]
       ELSE addFactors([registered EXCEPT ![Head(overrides).key] = Head(overrides).factor],
                       Tail(overrides))

\* Object.assign(this.config, config): the settings given replace the old
assign(settings, overrides) ==
  [k \in SettingKeys |-> IF overrides[k].type = "undefined" THEN settings[k]
                         ELSE overrides[k]]

\* ---------------------------------------------------------- rate limiter
\* the methods that have a rule of the DDPRateLimiter
MethodNames == {"requestToken", "getLoginToken", "invalidateSession",
                "verifyContact", "assertOpenSession"}

\* the DDP connections that call the methods; none of them is logged in
Clients == {"c1", "c2"}

\* the calls of one method counted within one interval
MaxCalls == 2

\* this.userId of a method call on the connection: nobody is logged in
userIdOf(c) == "null"

\* The counter a call falls under. The rules are {userId: this.config.validate,
\* type: 'method', name}; validate accepts every userId, and the limiter
\* counts per combination of the values of the fields a rule names: the
\* userId and the name (the type is 'method' throughout).
ruleKey(c, name) == <<userIdOf(c), name>>
RuleKeys == {ruleKey(c, m) : c \in Clients, m \in MethodNames}

\* the counters of the rules when their interval begins, the calls of each
\* connection the limiter has let through since, and the last call: whether
\* it was let through and how many calls of the connection had been before
NoCalls ==
  [counters |-> [k \in RuleKeys |-> 0],
   admitted |-> [c \in Clients |-> [m \in MethodNames |-> 0]],
   last |-> [connectionId |-> "", name |-> "", allowed |-> TRUE, before |-> 0]]

\* the login attempts kept
MaxAttempts == 2

\* the login methods of Accounts and the types of login handlers
LoginMethods == {"login", "verifyEmail", "resetPassword", "createUser", "changePassword"}
LoginTypes == {"resume", "password"}

\* no login has been attempted
NoAttempts == <<>>

\* a hook that looks at the method only
validateAnyType(attempt) ==
  attempt.methodName \in {"login", "verifyEmail", "resetPassword"}

\* the callback the constructor registers with Accounts.validateLoginAttempt
validateLoginAttempt(attempt) ==
  /\ attempt.methodName \in {"login", "verifyEmail", "resetPassword"}
  /\ attempt.type = "resume"

Init ==
  /\ collection = {}
  /\ nextId = 1
  /\ fibers = [f \in Fibers |-> IdleFiber]
  /\ returned = NoReturn
  /\ config = defaultConfig
  /\ limiter = NoCalls
  /\ login = NoAttempts

\* ---------------------------------------------------------------- actions
\* a remove whose selector has verifyAt: {$exists: true}
invalidateVerified(coll, connectionId) ==
  coll \ {d \in coll : d.connectionId = connectionId /\ d.verifyAt # None}

\* TokenLogin.invalidateSession(connectionId): the collection after the remove
invalidateSession(coll, connectionId) == coll \ removeSelected(coll, connectionId)

\* Meteor method requestToken before instance.invalidateSession: findUser,
\* check(notify, {contact: String, factor: String}) and the test that the
\* factor is registered. The error thrown, "" when there is none.
requestTokenError(who) ==
  IF who = NoUser THEN "user/password-not-found"
  ELSE IF Profile(who) = Undefined THEN "Match failed"
  ELSE IF Profile(who).factor \notin {"default", "telegram", "email"}
       THEN "sms not supported"
  ELSE ""

\* a method that invalidates the session before it checks the profile
requestTokenMethodEager(f) ==
  /\ Free(f)
  /\ \E who \in Users \cup {NoUser, NoProfileUser, BadFactorUser}, c \in Conns :
       IF requestTokenError(who) # ""
       THEN /\ returned' = [Thrown(f, "method requestToken", requestTokenError(who), "")
                              EXCEPT !.connectionId = StringVal(c)]
            /\ collection' = IF who = NoUser THEN collection
                             ELSE invalidateSession(collection, StringVal(c))
            /\ UNCHANGED fibers
       ELSE /\ collection' = invalidateSession(collection, StringVal(c))
            /\ fibers' = [fibers EXCEPT ![f] =
                 [Frame("method requestToken", "create", UserDoc(who), StringVal(c))
                    EXCEPT !.removed = removeSelected(collection, StringVal(c))]]
            /\ returned' = NoReturn
  /\ UNCHANGED nextId
  /\ UNCHANGED env

\* Meteor method requestToken up to instance.invalidateSession(this.connection.id),
\* findUser looking among accounts
requestTokenMethodOf(f, accounts) ==
  /\ Free(f)
  /\ \E who \in accounts \cup {NoUser, NoProfileUser, BadFactorUser}, c \in Conns :
       IF requestTokenError(who) # ""
       THEN /\ returned' = [Thrown(f, "method requestToken", requestTokenError(who), "")
                              EXCEPT !.connectionId = StringVal(c)]
            /\ UNCHANGED <<collection, fibers>>
       ELSE /\ collection' = invalidateSession(collection, StringVal(c))
            /\ fibers' = [fibers EXCEPT ![f] =
                 [Frame("method requestToken", "create", UserDoc(who), StringVal(c))
                    EXCEPT !.removed = removeSelected(collection, StringVal(c))]]
            /\ returned' = NoReturn
  /\ UNCHANGED nextId
  /\ UNCHANGED env

requestTokenMethod(f) == requestTokenMethodOf(f, Users)

\* what wrapAsync returns or throws for the callback sendToken passes on
sendTokenResult(f, op, outcome) ==
  IF outcome = "sent" THEN Returned(f, op, "true", "")
  ELSE Thrown(f, op, outcome, "")

\* requestTokenAsync: generateToken, createSession, sendToken and its
\* callback. Entered from the Meteor method (pc = "create") or called on the
\* instance by server code. The send succeeds, fails or times out. The users
\* are those of accounts.
requestTokenAsyncOf(f, accounts) ==
  /\ IF fibers[f].pc = "create" THEN TRUE ELSE Free(f)
  /\ nextId <= MaxSessions
  /\ \E u \in accounts, c \in Conns, token \in GenTokens, outcome \in {"sent", "failed", "timed out"} :
       /\ fibers[f].pc = "create" =>
            fibers[f].user = UserDoc(u) /\ fibers[f].connectionId = StringVal(c)
       /\ collection' = collection \cup
            {newSession(nextId, StringVal(c), UserDoc(u), token, Profile(u).factor, Now)}
       /\ returned' = [sendTokenResult(f,
            IF fibers[f].pc = "create" THEN fibers[f].op ELSE "requestToken", outcome)
              EXCEPT !.removed = fibers[f].removed]
  /\ fibers' = [fibers EXCEPT ![f] = IdleFiber]
  /\ nextId' = nextId + 1
  /\ UNCHANGED env

requestTokenAsync(f) == requestTokenAsyncOf(f, Users)

\* ------------------------------------------------------------- delivery
\* The factors registered: defaultConfig.factors.default, which declares
\* settings.timeout (5 seconds), and the factors of the TwoFactorLogin
\* instance, which declare no settings.
Factors == {"default", "telegram"}

\* get(method, 'settings.timeout'), in seconds; 0 stands for every falsy
\* value (undefined, 0)
settingsTimeout(factor) == IF factor = "default" THEN 5 ELSE 0

\* defaultConfig.timeout, in seconds
configTimeout == 1

\* a timer that always takes the global default
sendTimeoutGlobal(factor) == configTimeout

\* the delay of the timer: get(method, 'settings.timeout') || this.config.timeout
sendTimeout(factor) ==
  IF settingsTimeout(factor) # 0 THEN settingsTimeout(factor) ELSE configTimeout

\* requestTokenAsync up to the return of sendToken: generateToken,
\* createSession, then sendToken sets the timer and calls method.send. The
\* caller (wrapAsync) now waits for the callback.
requestTokenStart(f) ==
  /\ IF fibers[f].pc = "create" THEN TRUE ELSE Free(f)
  /\ nextId <= MaxSessions
  /\ \E u \in Users, c \in Conns, token \in GenTokens, factor \in Factors :
       /\ fibers[f].pc = "create" =>
            /\ fibers[f].user = UserDoc(u)
            /\ fibers[f].connectionId = StringVal(c)
            /\ factor = Profile(u).factor
       /\ collection' = collection \cup
            {newSession(nextId, StringVal(c), UserDoc(u), token, factor, Now)}
       /\ fibers' = [fibers EXCEPT ![f] =
            [Frame(IF fibers[f].pc = "create" THEN fibers[f].op ELSE "requestToken",
                   "sending", UserDoc(u), StringVal(c))
               EXCEPT !.token = token,
                      !.session = newSession(nextId, StringVal(c), UserDoc(u), token, factor, Now),
                      !.removed = fibers[f].removed,
                      !.send = "pending", !.timer = TRUE,
                      !.timeout = sendTimeout(factor)]]
  /\ returned' = NoReturn
  /\ nextId' = nextId + 1
  /\ UNCHANGED env

\* requestToken(connectionId, user, contact, factor) called on the instance
\* with a factor that is not registered: the session is created, sendToken
\* finds no method, writes the token to the console, sets the timer and
\* fails on method.send with a TypeError, which the caller gets. The timer's
\* callback finds nobody waiting.
requestTokenUnsupported(f) ==
  /\ Free(f)
  /\ nextId <= MaxSessions
  /\ \E u \in Users, c \in Conns, token \in GenTokens :
       /\ collection' = collection \cup
            {newSession(nextId, StringVal(c), UserDoc(u), token, Profile(BadFactorUser).factor, Now)}
       /\ returned' = [Thrown(f, "requestToken", "TypeError", "printing token on console")
                         EXCEPT !.console = {token},
                                !.session = newSession(nextId, StringVal(c), UserDoc(u), token,
                                                       Profile(BadFactorUser).factor, Now)]
  /\ nextId' = nextId + 1
  /\ UNCHANGED fibers
  /\ UNCHANGED env

\* The callback passed to sendToken is invoked with outcome; send and timer
\* are the state of the channel's send and of the timer after the event.
\* The first invocation makes the waiting call return or throw; the frame
\* is dropped when neither event is outstanding.
callback(f, outcome, send, timer) ==
  /\ fibers' = [fibers EXCEPT ![f] =
       IF send = "done" /\ ~timer THEN IdleFiber
       ELSE [fibers[f] EXCEPT !.pc = "returned", !.send = send, !.timer = timer,
                              !.calls = fibers[f].calls + 1]]
  /\ returned' = IF fibers[f].calls = 0
                 THEN [sendTokenResult(f, fibers[f].op, outcome)
                         EXCEPT !.session = fibers[f].session]
                 ELSE NoReturn
  /\ UNCHANGED <<collection, nextId>>

\* method.send calls back, with an error or with a result
sendCompletes(f) ==
  /\ fibers[f].send = "pending"
  /\ \E outcome \in {"sent", "failed"} :
       callback(f, outcome, "done", fibers[f].timer)
  /\ UNCHANGED env

\* the timer set by Meteor.setTimeout fires: callback(new Meteor.Error(... timed out))
timerFires(f) ==
  /\ fibers[f].timer
  /\ callback(f, "timed out", fibers[f].send, FALSE)
  /\ UNCHANGED env

\* a failure that tells the caller which check failed
verifyFailureDetailed(f, op, r) ==
  IF op = "verifyToken" THEN Returned(f, op, r, r) ELSE Thrown(f, op, r, r)

\* what a failed check r gives the caller: verifyToken logs r to the console
\* and returns false; getLoginToken throws one error for every false
verifyFailure(f, op, r) ==
  IF op = "verifyToken" THEN Returned(f, op, "false", r)
  ELSE Thrown(f, op, "invalid token-session pair", r)

\* verifyToken up to its update: the lookup and the four checks, with the
\* parameters as passed; getLoginToken throws when verifyToken returns false
verifyLookup(f, op, user, connectionId, token, session) ==
  LET r == verifyChecks(session, Now, token)
  IN IF r = "ok"
     THEN /\ fibers' = [fibers EXCEPT ![f] =
               [Frame(op, "update", user, connectionId)
                  EXCEPT !.token = token, !.session = session]]
          /\ returned' = NoReturn
     ELSE /\ returned' = [verifyFailure(f, op, r)
                            EXCEPT !.token = token, !.session = session]
          /\ UNCHANGED fibers

\* a lookup by connection alone
verifyTokenFindAnyUser(coll, user, connectionId) ==
  IF {d \in coll : d.connectionId = connectionId} = {} THEN {NoDoc}
  ELSE {d \in coll : d.connectionId = connectionId}

\* the lookup of verifyToken(user, connectionId, token):
\* collection.findOne({connectionId, userId: user._id})
verifyTokenFind(coll, user, connectionId) == findOne(coll, connectionId, Prop_id(user))

\* the lookup of the verifyToken call that the method getLoginToken makes:
\* instance.verifyToken(this.connection.id, user, token)
getLoginTokenFind(coll, user, connection) == verifyTokenFind(coll, connection, user)

\* a verifyToken that removes the session when the token is wrong
verifyTokenConsuming(f, accounts) ==
  /\ Free(f)
  /\ \E u \in accounts, c \in Conns, token \in SubmittedTokens :
       \E session \in verifyTokenFind(collection, UserDoc(u), StringVal(c)) :
          /\ verifyLookup(f, "verifyToken", UserDoc(u), StringVal(c), token, session)
          /\ collection' = IF verifyChecks(session, Now, token) = "wrong token"
                           THEN collection \ {session} ELSE collection
  /\ UNCHANGED nextId
  /\ UNCHANGED env

\* TokenLogin.verifyToken(user, connectionId, token) called on the instance
\* for a user of accounts
verifyTokenOf(f, accounts) ==
  /\ Free(f)
  /\ \E u \in accounts, c \in Conns, token \in SubmittedTokens :
       \E session \in verifyTokenFind(collection, UserDoc(u), StringVal(c)) :
          verifyLookup(f, "verifyToken", UserDoc(u), StringVal(c), token, session)
  /\ UNCHANGED <<collection, nextId>>
  /\ UNCHANGED env

verifyToken(f) == verifyTokenOf(f, Users)

\* Meteor method getLoginToken: findUser among accounts, then
\* instance.verifyToken(this.connection.id, user, token)
getLoginTokenMethodOf(f, accounts) ==
  /\ Free(f)
  /\ \E who \in accounts \cup {NoUser}, c \in Conns, token \in SubmittedTokens :
       IF who = NoUser
       THEN /\ returned' = Thrown(f, "method getLoginToken", "user/password-not-found", "")
            /\ UNCHANGED fibers
       ELSE \E session \in getLoginTokenFind(collection, UserDoc(who), StringVal(c)) :
              verifyLookup(f, "method getLoginToken", StringVal(c), UserDoc(who), token, session)
  /\ UNCHANGED <<collection, nextId>>
  /\ UNCHANGED env

getLoginTokenMethod(f) == getLoginTokenMethodOf(f, Users)

\* the strings a client holds as the id of its session
ClientSessionIds == SubmittedTokens \cup {<<2>>}

\* The client's getLoginToken(selector, password, sessionId, token, callback):
\* Meteor.call(prefix/getLoginToken, selector, digest, sessionId, token). The
\* server's method is getLoginToken(selector, digest, token): its third
\* parameter is bound to the third argument, the client's sessionId, and the
\* fourth argument is dropped. Then findUser and
\* instance.verifyToken(this.connection.id, user, token) as in the method.
clientGetLoginToken(f) ==
  /\ Free(f)
  /\ \E who \in Users, c \in Conns, sessionId \in ClientSessionIds, token \in SubmittedTokens :
       \E session \in getLoginTokenFind(collection, UserDoc(who), StringVal(c)) :
          IF verifyChecks(session, Now, sessionId) = "ok"
          THEN /\ fibers' = [fibers EXCEPT ![f] =
                    [Frame("method getLoginToken", "update", StringVal(c), UserDoc(who))
                       EXCEPT !.token = sessionId, !.session = session]]
               /\ returned' = NoReturn
          ELSE /\ returned' =
                    [verifyFailure(f, "method getLoginToken", verifyChecks(session, Now, sessionId))
                       EXCEPT !.token = sessionId, !.session = session,
                              !.user = UserDoc(who), !.connectionId = StringVal(c),
                              !.args = <<sessionId, token>>]
               /\ UNCHANGED fibers
  /\ UNCHANGED <<collection, nextId>>
  /\ UNCHANGED env

\* the update of verifyToken and its return true
verifyTokenUpdate(f) ==
  /\ fibers[f].pc = "update"
  /\ collection' = update(collection, fibers[f].session._id, Now)
  /\ IF fibers[f].op = "verifyToken"
     THEN /\ returned' = [Returned(f, "verifyToken", "true", "")
                            EXCEPT !.token = fibers[f].token, !.session = fibers[f].session]
          /\ fibers' = [fibers EXCEPT ![f] = IdleFiber]
     ELSE /\ fibers' = [fibers EXCEPT ![f].pc = "issue"]
          /\ returned' = NoReturn
  /\ UNCHANGED nextId
  /\ UNCHANGED env

\* a saveMeteorServiceToken that returns undefined when nothing was saved
serviceTokenSilent(op, res) ==
  IF res = 0 THEN [NoReturn EXCEPT !.op = op, !.ret = "undefined"]
  ELSE [NoReturn EXCEPT !.op = op, !.ret = "loginToken", !.n = res]

\* the end of saveMeteorServiceToken, res being what Meteor.users.update
\* returned: if (!res) throw ...; return stampedToken.token
serviceTokenResult(op, res) ==
  IF res = 0
  THEN [NoReturn EXCEPT !.op = op, !.ret = "throw",
                        !.err = "unable to save token to user services"]
  ELSE [NoReturn EXCEPT !.op = op, !.ret = "loginToken", !.n = res]

\* saveMeteorServiceToken(user): pushes a hashed login token to the user's
\* services with Meteor.users.update, which reports 1 document updated, or 0
\* when the user document is no longer there. Entered from getLoginToken
\* (pc = "issue", the user being the one verifyToken was handed as its
\* connectionId) or called on the instance.
saveMeteorServiceToken(f) ==
  /\ IF fibers[f].pc = "issue" THEN TRUE ELSE Free(f)
  /\ \E u \in Users, res \in {0, 1} :
       /\ fibers[f].pc = "issue" => fibers[f].connectionId = UserDoc(u)
       /\ returned' = [serviceTokenResult(IF fibers[f].pc = "issue" THEN fibers[f].op
                                          ELSE "saveMeteorServiceToken", res)
                         EXCEPT !.user = UserDoc(u)]
  /\ fibers' = [fibers EXCEPT ![f] = IdleFiber]
  /\ UNCHANGED <<collection, nextId>>
  /\ UNCHANGED env

\* verifyContact(user): return get(user, 'profile.TwoFactorLogin')
verifyContact(u) == Profile(u)

\* Meteor method verifyContact: findUser, then return instance.verifyContact(user)
verifyContactMethod(f) ==
  /\ Free(f)
  /\ \E who \in Users \cup {NoUser, NoProfileUser, BadFactorUser} :
       returned' = IF who = NoUser
                   THEN Thrown(f, "method verifyContact", "user/password-not-found", "")
                   ELSE [Returned(f, "method verifyContact", "value", "")
                           EXCEPT !.user = UserDoc(who), !.value = verifyContact(who)]
  /\ UNCHANGED <<collection, nextId, fibers>>
  /\ UNCHANGED env

\* the configurations passed: up to two factors, for the keys email and sms
\* in the order of the keys, and at most one setting
FactorOverrides ==
  {<<>>}
  \cup {<<[key |-> k, factor |-> s]>> : k \in {"email", "sms"}, s \in FactorShapes \ {WithSettings}}
  \cup {<<[key |-> "email", factor |-> s], [key |-> "sms", factor |-> t]>> :
          s \in FactorShapes \ {WithSettings}, t \in FactorShapes \ {WithSettings}}

SettingOverrides ==
  {[k \in SettingKeys |-> IF k = key THEN v ELSE Absent] :
     key \in SettingKeys, v \in SettingValues}

ConfigInputs == [factors : FactorOverrides, settings : SettingOverrides]

\* validateConfig(config) on the configuration old: the configuration it
\* leaves and whether it threw. The factors are added first, then the rest
\* is checked, then assigned.
validateConfigResult(old, cfg) ==
  LET r == addFactors(old.factors, cfg.factors)
  IN IF r.threw \/ \E k \in SettingKeys : ~checkSetting(k, cfg.settings[k])
     THEN [config |-> [old EXCEPT !.factors = r.factors], threw |-> TRUE]
     ELSE [config |-> [factors |-> r.factors,
                       settings |-> assign(old.settings, cfg.settings)],
           threw |-> FALSE]

\* instance.validateConfig(config), also what the constructor of another
\* TokenLogin does on the same defaultConfig
validateConfig(cfg) ==
  /\ config' = validateConfigResult(config, cfg).config
  /\ returned' = IF validateConfigResult(config, cfg).threw
                 THEN Thrown(1, "validateConfig", "Match failed", "")
                 ELSE Returned(1, "validateConfig", "undefined", "")
  /\ UNCHANGED <<collection, nextId, fibers, limiter, login>>

\* instance.addFactor(factor, key)
addFactor(factor, key) ==
  /\ config' = [config EXCEPT !.factors =
                  addFactors(config.factors, <<[key |-> key, factor |-> factor]>>).factors]
  /\ returned' = IF checkFactor(factor)
                 THEN Returned(1, "addFactor", "undefined", "")
                 ELSE Thrown(1, "addFactor", "Match failed", "")
  /\ UNCHANGED <<collection, nextId, fibers, limiter, login>>

\* A method call arrives on a connection: the limiter increments the counter
\* of the call's key and lets the call through unless the counter exceeds
\* the number of requests allowed (addRule(rule, requestCount, requestInterval)).
ddpCall(c, name) ==
  /\ limiter.counters[ruleKey(c, name)] < MaxCalls
  /\ LET n == limiter.counters[ruleKey(c, name)] + 1
         allowed == n <= requestCount
     IN limiter' =
          [counters |-> [limiter.counters EXCEPT ![ruleKey(c, name)] = n],
           admitted |-> [limiter.admitted EXCEPT ![c][name] = IF allowed THEN @ + 1 ELSE @],
           last |-> [connectionId |-> c, name |-> name, allowed |-> allowed,
                     before |-> limiter.admitted[c][name]]]
  /\ UNCHANGED <<collection, nextId, fibers, returned, config, login>>

\* requestInterval has passed since the rule of the method was last reset:
\* its counters start again
resetCounter(name) ==
  /\ \E c \in Clients : limiter.counters[ruleKey(c, name)] > 0
  /\ limiter' =
       [counters |-> [k \in RuleKeys |-> IF k[2] = name THEN 0 ELSE limiter.counters[k]],
        admitted |-> [c \in Clients |-> [limiter.admitted[c] EXCEPT ![name] = 0]],
        last |-> NoCalls.last]
  /\ UNCHANGED <<collection, nextId, fibers, returned, config, login>>

\* A client attempts a login: the login handler of the type accepts the
\* credentials or not (valid), then Accounts runs the validateLoginAttempt
\* hook; the attempt is allowed when both agree.
loginAttempt(methodName, type, valid) ==
  /\ Len(login) < MaxAttempts
  /\ login' = Append(login,
       [methodName |-> methodName, type |-> type, valid |-> valid,
        allowed |-> valid /\ validateLoginAttempt([methodName |-> methodName, type |-> type])])
  /\ UNCHANGED <<collection, nextId, fibers, returned, config, limiter>>

\* Meteor method invalidateSession: instance.invalidateSession(this.connection.id)
invalidateSessionMethod(f) ==
  /\ Free(f)
  /\ \E c \in Conns :
       /\ collection' = invalidateSession(collection, StringVal(c))
       /\ returned' = [Returned(f, "method invalidateSession", "count", "")
                         EXCEPT !.n = Cardinality(removeSelected(collection, StringVal(c))),
                                !.connectionId = StringVal(c),
                                !.removed = removeSelected(collection, StringVal(c))]
  /\ UNCHANGED <<nextId, fibers>>
  /\ UNCHANGED env

\* TokenLogin.assertOpenSession(user, connectionId): the possible results
assertOpenSession(coll, t, user, connectionId) ==
  {assertOpenChecks(session, t) : session \in findOne(coll, connectionId, Prop_id(user))}

\* Meteor method assertOpenSession: findUser, then
\* instance.assertOpenSession(user, this.connection.id)
assertOpenSessionMethod(f) ==
  /\ Free(f)
  /\ \E who \in Users \cup {NoUser}, c \in Conns :
       IF who = NoUser
       THEN returned' = Thrown(f, "method assertOpenSession", "user/password-not-found", "")
       ELSE \E r \in assertOpenSession(collection, Now, UserDoc(who), StringVal(c)) :
              returned' = Returned(f, "method assertOpenSession", IF r THEN "true" ELSE "false", "")
  /\ UNCHANGED <<collection, nextId, fibers>>
  /\ UNCHANGED env

\* TokenLogin.isVerified(connectionId): the possible results of
\* !!get(this.collection.findOne({connectionId}), 'verifyAt')
isVerified(coll, connectionId) ==
  LET m == {d \in coll : d.connectionId = connectionId}
  IN {session # NoDoc /\ session.verifyAt # None :
        session \in IF m = {} THEN {NoDoc} ELSE m}

\* isVerified called on the instance
isVerifiedCall(f) ==
  /\ Free(f)
  /\ \E c \in Conns : \E r \in isVerified(collection, StringVal(c)) :
       returned' = [Returned(f, "isVerified", IF r THEN "true" ELSE "false", "")
                      EXCEPT !.connectionId = StringVal(c)]
  /\ UNCHANGED <<collection, nextId, fibers>>
  /\ UNCHANGED env

\* the TTL index {expireAt: 1}, expireAfterSeconds 0
ttlExpire ==
  /\ \E d \in collection :
       /\ d.expireAt # None /\ d.expireAt < Now
       /\ collection' = collection \ {d}
  /\ returned' = NoReturn
  /\ UNCHANGED <<nextId, fibers>>
  /\ UNCHANGED env

\* the TTL index {verifyAt: 1}, expireAfterSeconds retain/1000
ttlRetain ==
  /\ \E d \in collection :
       /\ d.verifyAt # None /\ d.verifyAt + retain < Now
       /\ collection' = collection \ {d}
  /\ returned' = NoReturn
  /\ UNCHANGED <<nextId, fibers>>
  /\ UNCHANGED env

\* the clock: one tick passes
Earlier(date) == IF date = None \/ date = Floor THEN date ELSE date - 1

Aged(d) == [d EXCEPT !.expireAt = Earlier(@), !.verifyAt = Earlier(@)]

Tick ==
  /\ collection' = {Aged(d) : d \in collection}
  /\ fibers' = [f \in Fibers |->
        [fibers[f] EXCEPT !.session = Aged(@), !.removed = {Aged(d) : d \in @}]]
  /\ returned' = NoReturn
  /\ UNCHANGED nextId
  /\ UNCHANGED env

Next ==
  \/ \E f \in Fibers : requestTokenMethod(f)
  \/ \E f \in Fibers : requestTokenAsync(f)
  \/ \E f \in Fibers : verifyToken(f)
  \/ \E f \in Fibers : getLoginTokenMethod(f)
  \/ \E f \in Fibers : verifyTokenUpdate(f)
  \/ \E f \in Fibers : saveMeteorServiceToken(f)
  \/ \E f \in Fibers : invalidateSessionMethod(f)
  \/ \E f \in Fibers : assertOpenSessionMethod(f)
  \/ \E f \in Fibers : isVerifiedCall(f)
  \/ \E f \in Fibers : verifyContactMethod(f)
  \/ \E f \in Fibers : requestTokenUnsupported(f)
  \/ ttlExpire
  \/ ttlRetain
  \/ Tick

Spec == Init /\ [][Next]_vars

\* The calls that write to the collection, the TTL monitor and the clock.
\* The calls left out (getLoginToken, whose lookup never finds a document,
\* saveMeteorServiceToken, assertOpenSession) leave collection, nextId and
\* fibers as they are, so StoreSpec reaches the same collections and the
\* same calls in flight as Spec.
StoreNext ==
  \/ \E f \in Fibers : requestTokenMethod(f)
  \/ \E f \in Fibers : requestTokenAsync(f)
  \/ \E f \in Fibers : verifyToken(f)
  \/ \E f \in Fibers : verifyTokenUpdate(f)
  \/ \E f \in Fibers : invalidateSessionMethod(f)
  \/ ttlExpire
  \/ ttlRetain
  \/ Tick

StoreSpec == Init /\ [][StoreNext]_vars

\* The login path: sessions are requested on the instance, verified by
\* verifyToken or through the method getLoginToken, and a login token is
\* issued.
LoginNext ==
  \/ \E f \in Fibers : requestTokenAsync(f)
  \/ \E f \in Fibers : verifyToken(f)
  \/ \E f \in Fibers : getLoginTokenMethod(f)
  \/ \E f \in Fibers : verifyTokenUpdate(f)
  \/ \E f \in Fibers : saveMeteorServiceToken(f)
  \/ ttlExpire
  \/ ttlRetain
  \/ Tick

LoginSpec == Init /\ [][LoginNext]_vars

\* Two accounts that log in over the same connection: the login path with
\* the users u1 and u2.
Principals == {"u1", "u2"}

TwoUserNext ==
  \/ \E f \in Fibers : requestTokenMethodOf(f, Principals)
  \/ \E f \in Fibers : requestTokenAsyncOf(f, Principals)
  \/ \E f \in Fibers : verifyTokenOf(f, Principals)
  \/ \E f \in Fibers : getLoginTokenMethodOf(f, Principals)
  \/ \E f \in Fibers : verifyTokenUpdate(f)
  \/ \E f \in Fibers : invalidateSessionMethod(f)

TwoUserSpec == Init /\ [][TwoUserNext]_vars

\* The rate limiter in front of the methods
RateNext ==
  \/ \E c \in Clients, name \in MethodNames : ddpCall(c, name)
  \/ \E name \in MethodNames : resetCounter(name)

RateSpec == Init /\ [][RateNext]_vars

\* Sessions are requested and verified on the instance while clients read:
\* assertOpenSession, verifyContact, isVerified
ReadNext ==
  \/ \E f \in Fibers : requestTokenAsync(f)
  \/ \E f \in Fibers : verifyToken(f)
  \/ \E f \in Fibers : verifyTokenUpdate(f)
  \/ \E f \in Fibers : assertOpenSessionMethod(f)
  \/ \E f \in Fibers : verifyContactMethod(f)
  \/ \E f \in Fibers : isVerifiedCall(f)
  \/ Tick

ReadSpec == Init /\ [][ReadNext]_vars

\* The logins attempted once the instance is constructed
AttemptNext ==
  \E methodName \in LoginMethods, type \in LoginTypes, valid \in BOOLEAN :
     loginAttempt(methodName, type, valid)

AttemptSpec == Init /\ [][AttemptNext]_vars

\* The login of the client class against the server: sessions are requested
\* through the method, then the client calls getLoginToken; server code may
\* verify on the instance
ClientNext ==
  \/ \E f \in Fibers : requestTokenMethod(f)
  \/ \E f \in Fibers : requestTokenAsync(f)
  \/ \E f \in Fibers : clientGetLoginToken(f)
  \/ \E f \in Fibers : verifyToken(f)
  \/ \E f \in Fibers : verifyTokenUpdate(f)
  \/ \E f \in Fibers : saveMeteorServiceToken(f)
  \/ Tick

ClientSpec == Init /\ [][ClientNext]_vars

\* The configuration calls
ConfigNext ==
  \/ \E cfg \in ConfigInputs : validateConfig(cfg)
  \/ \E factor \in FactorShapes, key \in {"email", "sms"} : addFactor(factor, key)

ConfigSpec == Init /\ [][ConfigNext]_vars

\* The calls that write to the collection, with sendToken in its steps: the
\* channel's send and the timer are events of their own.
DeliveryNext ==
  \/ \E f \in Fibers : requestTokenMethod(f)
  \/ \E f \in Fibers : requestTokenStart(f)
  \/ \E f \in Fibers : sendCompletes(f)
  \/ \E f \in Fibers : timerFires(f)
  \/ \E f \in Fibers : verifyToken(f)
  \/ \E f \in Fibers : verifyTokenUpdate(f)
  \/ \E f \in Fibers : invalidateSessionMethod(f)
  \/ ttlExpire
  \/ ttlRetain
  \/ Tick

DeliverySpec == Init /\ [][DeliveryNext]_vars

\* requestToken called on the instance, its sendToken in steps, with the
\* invalidation that can overtake it; the timeouts are short against the
\* expiry, and no tick of the clock passes.
SendNext ==
  \/ \E f \in Fibers : requestTokenStart(f)
  \/ \E f \in Fibers : sendCompletes(f)
  \/ \E f \in Fibers : timerFires(f)
  \/ \E f \in Fibers : invalidateSessionMethod(f)

\* Meteor.setTimeout: a timer that is set fires.
DeliveryLive ==
  Init /\ [][SendNext]_vars /\ \A f \in Fibers : WF_vars(timerFires(f))

\* ------------------------------------------------------------- vocabulary
\* The sessions the store holds for principal u on connection c, and the
\* states of a session: Verified (verifyAt set), Expired (unverified, its
\* expireAt has passed), Open (unverified, its expireAt has not passed).
SessionsOf(coll, u, c) ==
  {d \in coll : d.userId = StringVal(u) /\ d.connectionId = StringVal(c)}

Verified(d) == d.verifyAt # None

Expired(d) == d.verifyAt = None /\ d.expireAt # None /\ d.expireAt < Now

Open(d) == d.verifyAt = None /\ d.expireAt # None /\ d.expireAt >= Now

OpenSessions(coll, u, c) == {d \in SessionsOf(coll, u, c) : Open(d)}

\* the results verifyToken(user, connectionId, token) can give on coll,
\* were it to run to its end with nothing in between
verifyOutcomes(coll, user, connectionId, token) ==
  {verifyChecks(session, Now, token) = "ok" :
     session \in verifyTokenFind(coll, user, connectionId)}

\* fiber f takes the update step of a verifyToken call made on the instance
VerifyReturns(f) ==
  /\ fibers[f].op = "verifyToken"
  /\ fibers[f].pc = "update"
  /\ fibers'[f].pc = "idle"

\* fiber f takes the lookup step of a verifyToken call, and the checks pass
LookupPasses(f) ==
  /\ fibers[f].pc = "idle"
  /\ fibers'[f].op = "verifyToken"
  /\ fibers'[f].pc = "update"

\* ------------------------------------------------------------------ C1
\* C1: of the verifyToken calls that carry the correct token of one Open
\* session and run concurrently, exactly one returns true: a call whose
\* update comes when another call has already marked the session verified
\* returns false.
C1_OnlyOneVerifies ==
  [][\A f \in Fibers :
       (/\ VerifyReturns(f)
        /\ \E d \in collection : d._id = fibers[f].session._id /\ Verified(d))
       => returned'.ret = "false"]_vars

\* ------------------------------------------------------------------ C2
\* C2: in every reachable state the store holds at most one unverified,
\* unexpired session for each (principal, connection) pair.
C2_AtMostOneOpen ==
  \A u \in Users, c \in Conns : Cardinality(OpenSessions(collection, u, c)) <= 1

\* ------------------------------------------------------------------ C3
\* the session the requestToken call that has just returned created
NewSession == {d \in collection : d._id = nextId - 1}

\* C3: right after the method requestToken has succeeded for (P, S), the
\* method getLoginToken called for (P, S) with the token of the session just
\* created finds that session and its checks pass.
C3_RoundTrip ==
  (returned.op = "method requestToken" /\ returned.ret = "true") =>
    \A d \in NewSession :
      \A session \in getLoginTokenFind(collection, UserDoc(d.userId.v), d.connectionId) :
        verifyChecks(session, Now, d.token) = "ok"

\* ------------------------------------------------------------------ C4
\* C4: verifyToken(P, S, t) returns true only if, when it was called, the
\* store held a session of (P, S) that was unverified, unexpired and whose
\* token equals t: its lookup passes only on such a session, and only a call
\* whose lookup passed returns true. Every other call returns false, and no
\* call throws.
C4_TrueOnlyIfOpenAndEqual ==
  [][/\ \A f \in Fibers :
          LookupPasses(f) =>
            \E d \in SessionsOf(collection, fibers'[f].user.v, fibers'[f].connectionId.v) :
               /\ d = fibers'[f].session
               /\ Open(d)
               /\ d.token = fibers'[f].token
     /\ returned'.op = "verifyToken" =>
          /\ returned'.ret \in {"true", "false"}
          /\ returned'.err = ""
          /\ returned'.ret = "true" =>
               \E f \in Fibers : VerifyReturns(f) /\ returned'.token = fibers[f].token
          /\ returned'.ret = "false" =>
               \/ returned'.session = NoDoc
               \/ Verified(returned'.session)
               \/ Expired(returned'.session)
               \/ returned'.session.token # returned'.token]_vars

\* a verifyToken call has returned true
C4_Witness == returned.op = "verifyToken" /\ returned.ret = "true"

\* ------------------------------------------------------------------ C5
\* C5: a verifyToken call made when the expireAt of the unverified session
\* it finds has passed returns false, whatever the token and though the
\* record is still in the store: its lookup never passes on such a session.
C5_ExpiredNeverVerifies ==
  [][/\ \A f \in Fibers : LookupPasses(f) => ~Expired(fibers'[f].session)
     /\ (/\ returned'.op = "verifyToken"
         /\ fibers' = fibers
         /\ Expired(returned'.session))
        => returned'.ret = "false"]_vars

\* a call with the correct token has returned false on an expired session
\* that the store still holds
C5_Witness ==
  /\ returned.op = "verifyToken"
  /\ returned.ret = "false"
  /\ Expired(returned.session)
  /\ returned.token = returned.session.token
  /\ returned.session \in collection

\* ------------------------------------------------------------------ C6
\* fiber f takes the step of the method requestToken that creates the session
MethodCreates(f) ==
  /\ fibers[f].op = "method requestToken"
  /\ fibers[f].pc = "create"
  /\ fibers'[f].pc = "idle"

C7_FreshOpenSession ==
  (returned.op = "method requestToken" /\ returned.ret = "true") =>
    \A d \in NewSession :
      (\A e \in SessionsOf(collection, d.userId.v, d.connectionId.v) \ {d} : Verified(e)) =>
        /\ assertOpenSession(collection, Now, UserDoc(d.userId.v), d.connectionId) = {TRUE}
        /\ verifyOutcomes(collection, UserDoc(d.userId.v), d.connectionId, d.token) = {TRUE}

\* ------------------------------------------------------------------ C8
\* C8: if, between the lookup of verifyToken and its update, the session was
\* removed or has expired, the call returns false and marks no session
\* verified.
C8_ConditionalWrite ==
  [][\A f \in Fibers :
       (/\ VerifyReturns(f)
        /\ \A d \in collection : d._id = fibers[f].session._id => Expired(d))
       => (returned'.ret = "false" /\ collection' = collection)]_vars

C10_AssertOpenIffOpen ==
  \A u \in Users, c \in Conns :
    Cardinality({d \in SessionsOf(collection, u, c) : ~Verified(d)}) <= 1 =>
      assertOpenSession(collection, Now, UserDoc(u), StringVal(c))
        = {OpenSessions(collection, u, c) # {}}

\* ------------------------------------------------------------------ C12
\* C12: every requestToken call completes: a call waiting for its sendToken
\* eventually returns or throws; when the channel's send has not called back
\* it throws the timeout error; and the timer it waits on has the delay the
\* channel declares in settings.timeout, or else the global default.
C12_RequestCompletes ==
  /\ \A f \in Fibers : (fibers[f].pc = "sending") ~> (fibers[f].pc # "sending")
  /\ [][\A f \in Fibers :
          (/\ fibers[f].pc = "sending"
           /\ fibers'[f].pc # "sending"
           /\ fibers'[f].send = "pending")
          => (returned'.ret = "throw" /\ returned'.err = "timed out")]_vars
  /\ [](\A f \in Fibers :
          fibers[f].timer =>
            fibers[f].timeout =
              IF settingsTimeout(fibers[f].session.factor) # 0
              THEN settingsTimeout(fibers[f].session.factor)
              ELSE configTimeout)

\* a requestToken call has thrown the timeout error while the channel's send
\* had not called back
C12_Witness ==
  /\ returned.op = "requestToken"
  /\ returned.err = "timed out"
  /\ \E f \in Fibers : fibers[f].pc = "returned" /\ fibers[f].send = "pending"

\* ------------------------------------------------------------------ C11
\* C11: when a requestToken call reports a delivery failure (the send
\* failed or timed out), the session it created is still Open to
\* assertOpenSession: unless that session has expired or was invalidated or
\* verified in the meantime, assertOpenSession for its principal and
\* connection returns true (here: every other session of the pair is
\* Verified).
C11_FailureLeavesOpen ==
  (/\ returned.op \in {"requestToken", "method requestToken"}
   /\ returned.ret = "throw"
   /\ returned.err \in {"failed", "timed out"}) =>
    \A d \in collection :
      (/\ d._id = returned.session._id
       /\ Open(d)
       /\ \A e \in SessionsOf(collection, d.userId.v, d.connectionId.v) \ {d} : Verified(e))
      => assertOpenSession(collection, Now, UserDoc(d.userId.v), d.connectionId) = {TRUE}

\* ------------------------------------------------------------------ C13
\* the step invokes the callback of the sendToken call of fiber f (the frame
\* is dropped with the invocation that follows the last event)
CallbackInvoked(f) ==
  /\ fibers[f].pc \in {"sending", "returned"}
  /\ \/ fibers'[f].calls = fibers[f].calls + 1
     \/ fibers'[f].pc = "idle"

\* C13: for each sendToken call the callback is invoked exactly once, by
\* whichever of the send's completion and the timer comes first: it is never
\* invoked a second time.
C13_CallbackOnce ==
  [][\A f \in Fibers : fibers[f].calls >= 1 => ~CallbackInvoked(f)]_vars

\* ------------------------------------------------------------------ C14
\* C14: once a session has verifyAt set, no call changes verifyAt or any
\* other field of it or deletes it: from one state to the next the record
\* is the same (one tick older when the clock ticks), or its retention
\* window is over and it is gone.
C14_VerifiedImmutable ==
  [][\A d \in collection :
       Verified(d) =>
         \/ d \in collection'
         \/ Aged(d) \in collection'
         \/ /\ d.verifyAt + retain < Now
            /\ \A e \in collection' : e._id # d._id]_vars

\* ------------------------------------------------------------------ C15
\* C15: a Verified session is found by isVerified at every time up to
\* verifyAt + retain (here: when it is the only session of its connection),
\* and at every time after verifyAt + retain no lookup returns it, whether
\* or not the TTL monitor has removed the record.
C15_RetainedThenAbsent ==
  \A d \in collection :
    Verified(d) =>
      IF d.verifyAt + retain >= Now
      THEN (\A e \in collection : e.connectionId = d.connectionId => e = d)
             => isVerified(collection, d.connectionId) = {TRUE}
      ELSE /\ TRUE \notin isVerified(collection, d.connectionId)
           /\ d \notin findOne(collection, d.connectionId, d.userId)

\* ------------------------------------------------------------------ C16
\* C16: when the method requestToken fails because the principal is not
\* found, has no {contact, factor} pair, or names a factor that is not
\* registered, the store is unchanged: no session is created and every
\* session, an Open one of the connection included, stays as it is.
C16_FailureChangesNothing ==
  [][(/\ returned'.op = "method requestToken"
      /\ returned'.ret = "throw"
      /\ returned'.err \in {"user/password-not-found", "Match failed", "sms not supported"})
     => (collection' = collection /\ nextId' = nextId)]_vars

\* the method has failed for an unregistered factor on a connection that
\* holds an Open session
C16_Witness ==
  /\ returned.op = "method requestToken"
  /\ returned.err = "sms not supported"
  /\ \E d \in collection : d.connectionId = returned.connectionId /\ Open(d)

\* ------------------------------------------------------------------ C17
\* the four ways a verification fails: the console messages of verifyToken
FailureCases == {"no session", "already verified", "expired", "wrong token"}

\* C17: whichever of the four failure cases holds, the caller of
\* getLoginToken sees the same error and the store is unchanged: verifyToken
\* returns the same false in all four, and getLoginToken throws the same
\* error for every false.
C17_UniformFailure ==
  [][/\ (returned'.op = "verifyToken" /\ returned'.log \in FailureCases) =>
          /\ returned'.ret = "false"
          /\ returned'.err = ""
          /\ collection' = collection
     /\ (returned'.op = "method getLoginToken" /\ returned'.log \in FailureCases) =>
          /\ returned'.ret = "throw"
          /\ returned'.err = "invalid token-session pair"
          /\ collection' = collection]_vars

\* getLoginToken has thrown its error for a token that no session of the
\* caller carries
C17_Witness ==
  /\ returned.op = "method getLoginToken"
  /\ returned.err = "invalid token-session pair"
  /\ collection # {}

\* ------------------------------------------------------------------ C18
\* C18: when credential issuance fails (Meteor.users.update reports nothing
\* saved) the failure reaches the caller as an error, and the store is
\* unchanged: a session that verifyToken has marked Verified stays Verified.
C18_IssuanceFailureKeepsVerified ==
  [][(/\ \/ returned'.op = "saveMeteorServiceToken"
         \/ \E f \in Fibers : fibers[f].pc = "issue" /\ fibers'[f].pc = "idle"
      /\ returned'.n = 0)
     => /\ returned'.ret = "throw"
        /\ returned'.err = "unable to save token to user services"
        /\ collection' = collection
        /\ \A d \in collection : Verified(d) => d \in collection']_vars

\* issuance has failed for a user who has a Verified session
C18_Witness ==
  /\ returned.op = "saveMeteorServiceToken"
  /\ returned.ret = "throw"
  /\ \E d \in collection : Verified(d) /\ d.userId = Prop_id(returned.user)

\* ------------------------------------------------------------------ C19
\* the user has a registered factor/contact pair in the profile
HasPair(u) == Profile(u) # Undefined

\* C19: verifyContact for a principal that has no registered factor/contact
\* pair fails with a ContactNotConfigured error instead of returning a value;
\* for a principal that has one it returns exactly that pair.
C19_ContactOrError ==
  \A u \in Users \cup {NoProfileUser, BadFactorUser} :
     (returned.op = "method verifyContact" /\ returned.user = UserDoc(u)) =>
        IF HasPair(u)
        THEN returned.ret = "value" /\ returned.value = Profile(u)
        ELSE returned.ret = "throw" /\ returned.err = "ContactNotConfigured"

\* ------------------------------------------------------------------ C20
\* the step sets verifyAt on the session d
NewlyVerified(d) ==
  /\ d \in collection
  /\ d.verifyAt = None
  /\ \E e \in collection' : e._id = d._id /\ e.verifyAt # None

\* C20: verifyToken invoked for principal P never sets verifyAt on a session
\* of another principal, even when the connection it is given carries a
\* session of another principal and the submitted token equals that
\* session's token: every session a step marks verified belongs to the user
\* of the verifyToken call that makes the step.
C20_NoCrossPrincipal ==
  [][\A d \in collection : NewlyVerified(d) =>
        \E f \in Fibers :
           /\ fibers[f].pc = "update"
           /\ fibers'[f].pc # "update"
           /\ d.userId = Prop_id(fibers[f].user)]_vars

\* two principals hold sessions on the same connection with the same token;
\* verifyToken for one of them returned true and the other's session is
\* still unverified
C20_Witness ==
  /\ returned.op = "verifyToken"
  /\ returned.ret = "true"
  /\ \E d \in collection, e \in collection :
       /\ d._id = returned.session._id
       /\ d.verifyAt # None
       /\ e.userId # d.userId
       /\ e.connectionId = d.connectionId
       /\ e.token = d.token
       /\ e.token = returned.token
       /\ e.verifyAt = None

\* ------------------------------------------------------------------ C21
\* C21: isolation is per (principal, connection): a requestToken performed
\* for a principal on a connection leaves every session of every other
\* principal in the store, and an invalidateSession removes sessions of one
\* principal only.
C21_IsolatedPerPrincipal ==
  [][/\ \A f \in Fibers :
          (fibers[f].pc # "create" /\ fibers'[f].pc = "create") =>
             \A d \in collection :
                d.userId # Prop_id(fibers'[f].user) => d \in collection'
     /\ returned'.op = "method invalidateSession" =>
          \A d \in returned'.removed, e \in returned'.removed : d.userId = e.userId]_vars

\* ------------------------------------------------------------------ C23
\* the configuration is one the specification rejects: a factor lacks a
\* send function, a numeric setting is given and is not a positive integer,
\* or a field has the wrong shape
InvalidConfig(cfg) ==
  \/ \E i \in 1..Len(cfg.factors) : cfg.factors[i].factor.send # "function"
  \/ \E i \in 1..Len(cfg.factors) : cfg.factors[i].factor.settings = "string"
  \/ \E k \in IntegerKeys :
        /\ cfg.settings[k].type # "undefined"
        /\ ~(cfg.settings[k].type = "integer" /\ cfg.settings[k].n > 0)
  \/ cfg.settings["profile"].type = "integer"

\* C23: configuration is rejected with an error when a delivery channel
\* lacks a send capability, when any of expiry, retain, requestInterval or
\* requestCount is not a positive integer (zero and negative integers
\* included), or when a reserved field has the wrong shape.
C23_InvalidConfigRejected ==
  [][\A cfg \in ConfigInputs :
        (InvalidConfig(cfg) /\ validateConfig(cfg)) => returned'.ret = "throw"]_vars

\* ------------------------------------------------------------------ C28
\* C28: a configuration call that is rejected leaves the shared
\* configuration unchanged: no factor of the rejected overrides has been
\* registered and no setting has been overwritten.
C28_RejectedChangesNothing ==
  [][(returned'.op \in {"validateConfig", "addFactor"} /\ returned'.ret = "throw")
       => config' = config]_vars

\* ------------------------------------------------------------------ C22
\* C22: rate limiting is keyed by (operation, caller): within an interval at
\* most requestCount calls of a method by the same caller are let through,
\* and the calls of one caller do not consume the allowance of another: a
\* call of a caller that has had fewer than requestCount calls let through
\* in the interval is let through.
C22_RateLimitPerCaller ==
  /\ \A c \in Clients, m \in MethodNames : limiter.admitted[c][m] <= requestCount
  /\ (limiter.last.name # "" /\ limiter.last.before < requestCount) => limiter.last.allowed

\* ------------------------------------------------------------------ C24
\* the values a call can return that are not made from a token
TokenFree == {"", "true", "false", "throw", "count", "value", "undefined", "loginToken"}

\* C24: a session's token is passed only to the send of the delivery
\* channel: no call returns it or throws it, and no call writes it to
\* another sink such as the console.
C24_TokenOnlyToSend ==
  /\ returned.ret \in TokenFree
  /\ returned.value \in {Undefined} \cup {Profile(u) : u \in Users \cup {BadFactorUser}}
  /\ returned.console = {}

\* ------------------------------------------------------------------ C25
\* C25: a successful requestToken returns to its caller the identifier of
\* the session it has just created.
C25_ReturnsSessionId ==
  (returned.op \in {"requestToken", "method requestToken"} /\ returned.ret # "throw")
     => /\ returned.ret = "id"
        /\ returned.n = returned.session._id

\* ------------------------------------------------------------------ C26
\* C26: the read-only operations and failed verifications have no effect on
\* the store: assertOpenSession, verifyContact, isVerified and any
\* verifyToken call that returns false leave every session record as it was.
C26_ReadsChangeNothing ==
  [][(\/ returned'.op \in {"method assertOpenSession", "method verifyContact", "isVerified"}
      \/ returned'.op = "verifyToken" /\ returned'.ret = "false")
     => /\ collection' = collection
        /\ nextId' = nextId]_vars

\* verifyToken has returned false for a wrong token and the session it was
\* tried on is still there and still open
C26_Witness ==
  /\ returned.op = "verifyToken"
  /\ returned.ret = "false"
  /\ returned.log = "wrong token"
  /\ returned.session \in collection
  /\ Open(returned.session)

\* ------------------------------------------------------------------ C27
\* C27: a session's token is generated once at creation and never changes:
\* every step leaves each stored session with the token, user, factor and
\* connection it had, whatever the operation.
C27_TokenNeverChanges ==
  [][\A d \in collection, e \in collection' :
        e._id = d._id => /\ e.token = d.token
                         /\ e.userId = d.userId
                         /\ e.factor = d.factor
                         /\ e.connectionId = d.connectionId]_vars

\* a session has been verified by verifyToken and carries the token it was
\* found with
C27_Witness ==
  /\ returned.op = "verifyToken"
  /\ returned.ret = "true"
  /\ \E d \in collection :
       /\ d._id = returned.session._id
       /\ Verified(d)
       /\ d.token = returned.session.token
       /\ d.token = returned.token

\* ------------------------------------------------------------------ C30
\* C30: once the instance is constructed, a login attempt is allowed only if
\* its type is resume and its method is one of login, verifyEmail,
\* resetPassword; every other attempt, a login by password with the right
\* password included, is refused.
C30_OnlyResumeAllowed ==
  \A i \in 1..Len(login) :
     /\ login[i].allowed =>
          /\ login[i].type = "resume"
          /\ login[i].methodName \in {"login", "verifyEmail", "resetPassword"}
     /\ login[i].type = "password" => ~login[i].allowed

\* a login by password with the right password has been refused and a login
\* by resume token has been allowed
C30_Witness ==
  /\ \E i \in 1..Len(login) :
       /\ login[i].methodName = "login"
       /\ login[i].type = "password"
       /\ login[i].valid
       /\ ~login[i].allowed
  /\ \E i \in 1..Len(login) :
       /\ login[i].methodName = "login"
       /\ login[i].type = "resume"
       /\ login[i].allowed

\* ------------------------------------------------------------------ C31
\* C31: client and server agree on the getLoginToken step: when the client
\* calls getLoginToken(selector, password, sessionId, token), the value the
\* server compares with the stored token is the client's token, and the
\* session is the one looked up by the authenticated user and the caller's
\* connection.
C31_ClientServerAgree ==
  (returned.op = "method getLoginToken" /\ returned.args # <<>>)
     => /\ returned.token = returned.args[2]
        /\ returned.session \in findOne(collection, returned.connectionId,
                                        Prop_id(returned.user))

====
